---- MODULE Spec2Model ----
(***************************************************************************)
(* A model of server.js: the POST /ai-move handler of the chess move       *)
(* relay.  A text is a sequence of characters, each character a one-letter *)
(* string ("U+2014" stands for the em dash, which is a single character).  *)
(* A JavaScript value is a record [t, s]: t its type tag, s its characters.*)
(***************************************************************************)
EXTENDS Integers, Sequences, FiniteSets, TLC

VARIABLES conns, lastIndex, crashed

vars == <<conns, lastIndex, crashed>>

----------------------------------------------------------------------------
\* JavaScript values

Undefined == [t |-> "undef", s |-> <<>>]

Null == [t |-> "null", s |-> <<>>]

Str(s) == [t |-> "str", s |-> s]

Num(s) == [t |-> "num", s |-> s]

UndefinedText ==
    <<"u", "n", "d", "e", "f", "i", "n", "e", "d">>

NullText ==
    <<"n", "u", "l", "l">>

\* ToBoolean, negated: undefined, null, "" and 0 are falsy.
Falsy(v) ==
    \/ v.t \in {"undef", "null"}
    \/ v.t = "str" /\ v.s = <<>>
    \/ v.t = "num" /\ v.s = <<"0">>

\* JSToString, as a template literal applies it to an interpolated value.
JSToString(v) ==
    CASE v.t = "undef" -> UndefinedText
      [] v.t = "null" -> NullText
      [] OTHER -> v.s

Digits == <<"0", "1", "2", "3", "4", "5", "6", "7", "8", "9">>

RECURSIVE Decimal(_)
\* Number to text, base 10.
Decimal(n) ==
    IF n < 10 THEN <<Digits[n + 1]>> ELSE Decimal(n \div 10) \o <<Digits[(n % 10) + 1]>>

----------------------------------------------------------------------------
\* Character classes of the move pattern (line 27), with the i flag applied.

LowerCase ==
    {"a", "b", "c", "d", "e", "f", "g", "h", "i", "j", "k", "l", "m",
     "n", "o", "p", "q", "r", "s", "t", "u", "v", "w", "x", "y", "z"}

UpperCase ==
    {"A", "B", "C", "D", "E", "F", "G", "H", "I", "J", "K", "L", "M",
     "N", "O", "P", "Q", "R", "S", "T", "U", "V", "W", "X", "Y", "Z"}

DigitChars == {"0", "1", "2", "3", "4", "5", "6", "7", "8", "9"}

\* \w, the characters \b tells apart from the others.
WordChars == LowerCase \cup UpperCase \cup DigitChars \cup {"_"}

\* [a-h] under /i
FileChars == {"a", "b", "c", "d", "e", "f", "g", "h", "A", "B", "C", "D", "E", "F", "G", "H"}

\* [1-8]
RankChars == {"1", "2", "3", "4", "5", "6", "7", "8"}

\* [qrbn] under /i
PromoChars == {"q", "r", "b", "n", "Q", "R", "B", "N"}

\* The characters String.prototype.trim strips.
WhiteSpace == {" ", "\t", "\n", "\r", "\f"}

\* The character at 0-based position p of s, "" outside the text.
CharAt(s, p) == IF p >= 0 /\ p < Len(s) THEN s[p + 1] ELSE ""

\* \b at position p: exactly one of the characters before and at p is a word character.
AtBoundary(s, p) == (CharAt(s, p - 1) \in WordChars) # (CharAt(s, p) \in WordChars)

\* The length of the match of \b[a-h][1-8][a-h][1-8][qrbn]?\b starting at p, 0 when none.
\* The optional letter is greedy: it is taken when the final \b then holds, dropped otherwise.
MatchLenAt(s, p) ==
    IF /\ AtBoundary(s, p)
       /\ CharAt(s, p) \in FileChars
       /\ CharAt(s, p + 1) \in RankChars
       /\ CharAt(s, p + 2) \in FileChars
       /\ CharAt(s, p + 3) \in RankChars
    THEN IF CharAt(s, p + 4) \in PromoChars /\ AtBoundary(s, p + 5) THEN 5
         ELSE IF AtBoundary(s, p + 4) THEN 4
         ELSE 0
    ELSE 0

\* A matcher /.../iy: sticky, so it matches at lastIndex only and moves lastIndex.
MoveMatcherFlagsSticky == [global |-> FALSE, sticky |-> TRUE]

\* The flags of moveMatcher: /.../i is neither global nor sticky.
MoveMatcherFlags == [global |-> FALSE, sticky |-> FALSE]

NoMatch == [found |-> FALSE, index |-> 0, len |-> 0]

RECURSIVE SearchFrom(_, _)
\* The first position at or after p where the pattern matches.
SearchFrom(s, p) ==
    IF p > Len(s) THEN NoMatch
    ELSE IF MatchLenAt(s, p) > 0 THEN [found |-> TRUE, index |-> p, len |-> MatchLenAt(s, p)]
    ELSE SearchFrom(s, p + 1)

\* RegExpBuiltinExec: the match, and the matcher's lastIndex afterwards.  A matcher that is
\* neither global nor sticky starts at 0 and leaves lastIndex alone.
RegExpExec(flags, li, s) ==
    LET stateful == flags.global \/ flags.sticky
        start == IF stateful THEN li ELSE 0
        m == IF start > Len(s) THEN NoMatch
             ELSE IF flags.sticky
                  THEN IF MatchLenAt(s, start) > 0
                       THEN [found |-> TRUE, index |-> start, len |-> MatchLenAt(s, start)]
                       ELSE NoMatch
                  ELSE SearchFrom(s, start)
    IN  [m |-> m,
         lastIndex |-> IF ~stateful THEN li ELSE IF m.found THEN m.index + m.len ELSE 0]

\* String.prototype.match(regexp): one exec, or for a global matcher every match from 0
\* (the first one is m[0]) with lastIndex left at 0.
StringMatch(flags, li, s) ==
    IF flags.global THEN [m |-> SearchFrom(s, 0), lastIndex |-> 0]
    ELSE RegExpExec(flags, li, s)

RECURSIVE TrimStart(_)
TrimStart(s) == IF s # <<>> /\ Head(s) \in WhiteSpace THEN TrimStart(Tail(s)) ELSE s

RECURSIVE TrimEnd(_)
TrimEnd(s) ==
    IF s # <<>> /\ s[Len(s)] \in WhiteSpace THEN TrimEnd(SubSeq(s, 1, Len(s) - 1)) ELSE s

\* String.prototype.trim
Trim(s) == TrimEnd(TrimStart(s))

RECURSIVE ReplaceFirst(_, _)
\* s.replace(c, ""): the first occurrence of the character c removed.
ReplaceFirst(s, c) ==
    IF s = <<>> THEN <<>>
    ELSE IF Head(s) = c THEN Tail(s)
    ELSE <<Head(s)>> \o ReplaceFirst(Tail(s), c)

\* Lines 78-79: m = reply.trim().match(moveMatcher); move = m ? m[0].replace("-", "") : null
ExtractMove(flags, li, reply) ==
    LET t == Trim(reply)
        r == StringMatch(flags, li, t)
    IN  [move |-> IF r.m.found
                  THEN Str(ReplaceFirst(SubSeq(t, r.m.index + 1, r.m.index + r.m.len), "-"))
                  ELSE Null,
         lastIndex |-> r.lastIndex]

----------------------------------------------------------------------------
\* The fixed texts of the handler

MissingNextMove ==
    <<"M", "i", "s", "s", "i", "n", "g", " ", "n", "e", "x", "t", " ", "m", "o", "v",
      "e">>

SystemPrompt ==
    <<"Y", "o", "u", " ", "a", "r", "e", " ", "a", " ", "c", "h", "e", "s", "s", " ",
      "m", "o", "v", "e", " ", "g", "e", "n", "e", "r", "a", "t", "o", "r", ".", " ",
      "Y", "o", "u", " ", "M", "U", "S", "T", " ", "r", "e", "s", "p", "o", "n", "d",
      " ", "w", "i", "t", "h", " ", "e", "x", "a", "c", "t", "l", "y", " ", "o", "n",
      "e", " ", "m", "o", "v", "e", " ", "i", "n", " ", "U", "C", "I", " ", "f", "o",
      "r", "m", "a", "t", " ", "(", "e", ".", "g", ".", " ", "e", "2", "e", "4", ",",
      " ", "g", "1", "f", "3", ",", " ", "e", "7", "e", "8", "q", " ", "f", "o", "r",
      " ", "p", "r", "o", "m", "o", "t", "i", "o", "n", ")", " ", "a", "n", "d", " ",
      "n", "o", "t", "h", "i", "n", "g", " ", "e", "l", "s", "e", ".", " ", "D", "o",
      " ", "N", "O", "T", " ", "i", "n", "c", "l", "u", "d", "e", " ", "c", "o", "m",
      "m", "e", "n", "t", "a", "r", "y", ",", " ", "e", "x", "p", "l", "a", "n", "a",
      "t", "i", "o", "n", ",", " ", "J", "S", "O", "N", ",", " ", "o", "r", " ", "a",
      "n", "y", " ", "e", "x", "t", "r", "a", " ", "t", "e", "x", "t", ".", " ", "I",
      "f", " ", "y", "o", "u", " ", "c", "a", "n", "n", "o", "t", " ", "f", "i", "n",
      "d", " ", "a", " ", "l", "e", "g", "a", "l", " ", "m", "o", "v", "e", ",", " ",
      "r", "e", "s", "p", "o", "n", "d", " ", "w", "i", "t", "h", " ", "P", "A", "S",
      "S", ".", " ", "U", "s", "e", " ", "s", "t", "a", "n", "d", "a", "r", "d", " ",
      "a", "l", "g", "e", "b", "r", "a", "i", "c", " ", "c", "o", "o", "r", "d", "i",
      "n", "a", "t", "e", "s", ":", " ", "a", "1", ".", ".", "h", "8", ".", " ", "A",
      "s", "s", "u", "m", "e", " ", "p", "o", "s", "i", "t", "i", "o", "n", " ", "F",
      "E", "N", " ", "p", "r", "o", "v", "i", "d", "e", "d", " ", "i", "s", " ", "t",
      "o", " ", "m", "o", "v", "e", ".", " ", "U", "s", "e", " ", "r", "e", "a", "s",
      "o", "n", "a", "b", "l", "e", " ", "c", "h", "e", "s", "s", " ", "k", "n", "o",
      "w", "l", "e", "d", "g", "e", " ", "b", "u", "t", " ", "d", "o", " ", "n", "o",
      "t", " ", "i", "n", "v", "e", "n", "t", " ", "i", "l", "l", "e", "g", "a", "l",
      " ", "m", "o", "v", "e", "s", ".", " ", "A", "v", "o", "i", "d", " ", "c", "a",
      "s", "t", "l", "i", "n", "g", " ", "i", "f", " ", "u", "n", "c", "l", "e", "a",
      "r", ".">>

UserPrefix ==
    <<"F", "E", "N", ":", " ", "M", "o", "v", "e", " ", "h", "i", "s", "t", "o", "r",
      "y", ":", " ">>

UserSuffix ==
    <<"\n", "R", "e", "s", "p", "o", "n", "d", " ", "w", "i", "t", "h", " ", "o", "n",
      "e", " ", "U", "C", "I", " ", "m", "o", "v", "e", " ", "o", "n", "l", "y", ".">>

DefaultModel ==
    <<"g", "p", "t", "-", "4", "o", "-", "m", "i", "n", "i">>

OpenAIErrorPrefix ==
    <<"O", "p", "e", "n", "A", "I", " ", "A", "P", "I", " ", "e", "r", "r", "o", "r",
      ":", " ">>

EmptyReplyText ==
    <<"E", "m", "p", "t", "y", " ", "r", "e", "p", "l", "y", " ", "f", "r", "o", "m",
      " ", "O", "p", "e", "n", "A", "I">>

----------------------------------------------------------------------------
\* Exceptions.  The TypeError texts are the ones the runtime gives for the
\* expression that failed.

Error(name, message) == [name |-> name, message |-> message]

NoError == Error("", <<>>)

BodyUndefinedMessage ==
    <<"C", "a", "n", "n", "o", "t", " ", "d", "e", "s", "t", "r", "u", "c", "t", "u",
      "r", "e", " ", "p", "r", "o", "p", "e", "r", "t", "y", " ", "'", "f", "e", "n",
      "'", " ", "o", "f", " ", "'", "r", "e", "q", ".", "b", "o", "d", "y", "'", " ",
      "a", "s", " ", "i", "t", " ", "i", "s", " ", "u", "n", "d", "e", "f", "i", "n",
      "e", "d", ".">>

MapOfUndefinedMessage ==
    <<"C", "a", "n", "n", "o", "t", " ", "r", "e", "a", "d", " ", "p", "r", "o", "p",
      "e", "r", "t", "i", "e", "s", " ", "o", "f", " ", "u", "n", "d", "e", "f", "i",
      "n", "e", "d", " ", "(", "r", "e", "a", "d", "i", "n", "g", " ", "'", "m", "a",
      "p", "'", ")">>

MapOfNullMessage ==
    <<"C", "a", "n", "n", "o", "t", " ", "r", "e", "a", "d", " ", "p", "r", "o", "p",
      "e", "r", "t", "i", "e", "s", " ", "o", "f", " ", "n", "u", "l", "l", " ", "(",
      "r", "e", "a", "d", "i", "n", "g", " ", "'", "m", "a", "p", "'", ")">>

MapNotFunctionMessage ==
    <<"h", "i", "s", "t", "o", "r", "y", ".", "m", "a", "p", " ", "i", "s", " ", "n",
      "o", "t", " ", "a", " ", "f", "u", "n", "c", "t", "i", "o", "n">>

EntryNullMessage ==
    <<"C", "a", "n", "n", "o", "t", " ", "d", "e", "s", "t", "r", "u", "c", "t", "u",
      "r", "e", " ", "p", "r", "o", "p", "e", "r", "t", "y", " ", "'", "f", "r", "o",
      "m", "'", " ", "o", "f", " ", "'", "o", "b", "j", "e", "c", "t", " ", "n", "u",
      "l", "l", "'", " ", "a", "s", " ", "i", "t", " ", "i", "s", " ", "n", "u", "l",
      "l", ".">>

ChoicesOfNullMessage ==
    <<"C", "a", "n", "n", "o", "t", " ", "r", "e", "a", "d", " ", "p", "r", "o", "p",
      "e", "r", "t", "i", "e", "s", " ", "o", "f", " ", "n", "u", "l", "l", " ", "(",
      "r", "e", "a", "d", "i", "n", "g", " ", "'", "c", "h", "o", "i", "c", "e", "s",
      "'", ")">>

TrimNotFunctionMessage ==
    <<"r", "e", "p", "l", "y", ".", "t", "r", "i", "m", " ", "i", "s", " ", "n", "o",
      "t", " ", "a", " ", "f", "u", "n", "c", "t", "i", "o", "n">>

BodyTerminatedMessage ==
    <<"t", "e", "r", "m", "i", "n", "a", "t", "e", "d">>

JsonEndMessage ==
    <<"U", "n", "e", "x", "p", "e", "c", "t", "e", "d", " ", "e", "n", "d", " ", "o",
      "f", " ", "J", "S", "O", "N", " ", "i", "n", "p", "u", "t">>

FetchFailedMessage ==
    <<"f", "e", "t", "c", "h", " ", "f", "a", "i", "l", "e", "d">>

----------------------------------------------------------------------------
\* Prompt builder (lines 39-41)

\* The entry numbered from 0: ${i} for ${i+1}.
EntryTextZeroBased(e, i) ==
    Decimal(i) \o <<".", " ">> \o JSToString(e.from) \o <<"-">> \o JSToString(e.to)

\* The template literal of line 40 for the entry at 0-based index i.
EntryText(e, i) ==
    Decimal(i + 1) \o <<".", " ">> \o JSToString(e.from) \o <<"-">> \o JSToString(e.to)

\* history.map(({from, to}, i) => ...): one text per entry, in order.
MapEntries(a) == [k \in 1..Len(a) |-> EntryText(a[k], k - 1)]

\* What evaluating history.map(...) throws: history is no array, or an entry is null.
MapError(history) ==
    CASE history.t = "undef" -> Error("TypeError", MapOfUndefinedMessage)
      [] history.t = "null" -> Error("TypeError", MapOfNullMessage)
      [] history.t = "str" -> Error("TypeError", MapNotFunctionMessage)
      [] \E k \in 1..Len(history.a) : history.a[k].t = "null" ->
             Error("TypeError", EntryNullMessage)
      [] OTHER -> NoError

\* QuoteJSONString on one character.
EscapeChar(c) ==
    CASE c = "\"" -> <<"\\", "\"">>
      [] c = "\\" -> <<"\\", "\\">>
      [] c = "\n" -> <<"\\", "n">>
      [] c = "\t" -> <<"\\", "t">>
      [] c = "\r" -> <<"\\", "r">>
      [] c = "\f" -> <<"\\", "f">>
      [] OTHER -> <<c>>

RECURSIVE EscapeText(_)
EscapeText(s) == IF s = <<>> THEN <<>> ELSE EscapeChar(Head(s)) \o EscapeText(Tail(s))

\* JSON.stringify of a string.
QuoteJSONString(s) == <<"\"">> \o EscapeText(s) \o <<"\"">>

RECURSIVE JoinQuoted(_)
JoinQuoted(texts) ==
    IF texts = <<>> THEN <<>>
    ELSE IF Len(texts) = 1 THEN QuoteJSONString(texts[1])
    ELSE QuoteJSONString(texts[1]) \o <<",">> \o JoinQuoted(Tail(texts))

\* JSON.stringify of an array of strings.
StringifyArray(texts) == <<"[">> \o JoinQuoted(texts) \o <<"]">>

\* Lines 39-41: the user instruction.  The template has no ${fen}.
UserInstruction(fen, history) == UserPrefix \o StringifyArray(MapEntries(history.a)) \o UserSuffix

\* Lines 45-51: the body of the outbound call.
OutboundBody(fen, history) ==
    [model |-> DefaultModel, system |-> SystemPrompt, user |-> UserInstruction(fen, history)]

----------------------------------------------------------------------------
\* Upstream responses and what the handler reads from them

UpstreamBody(kind, text, json) == [kind |-> kind, text |-> text, json |-> json]

\* The parsed body j as far as line 69-73 looks into it.
Json(j, choices, first, message, content) ==
    [j |-> j, choices |-> choices, first |-> first, message |-> message, content |-> content]

NoJson == Json("null", "undef", "null", "undef", Undefined)

NoUpstream == [ok |-> FALSE, statusText |-> <<>>, body |-> UpstreamBody("none", <<>>, NoJson)]

\* Lines 69-73: j.choices && j.choices[0] && j.choices[0].message && j.choices[0].message.content
ReplyOf(j) ==
    CASE j.choices = "undef" -> Undefined
      [] j.choices = "empty" -> Undefined
      [] j.first = "null" -> Null
      [] j.message = "undef" -> Undefined
      [] j.message = "null" -> Null
      [] OTHER -> j.content

----------------------------------------------------------------------------
\* Responses to the client

\* res.status(status).send(text)
TextResponse(status, text) ==
    [status |-> status, kind |-> "text", text |-> text, move |-> Undefined, raw |-> Undefined]

\* res.json({move, raw}): status 200
JsonResponse(move, raw) ==
    [status |-> 200, kind |-> "json", text |-> <<>>, move |-> move, raw |-> raw]

\* The trimmed reply returned as raw.
NoMoveResponseTrimmed(reply) == JsonResponse(Null, Str(Trim(reply.s)))

\* Line 82: res.json({ move: null, raw: reply })
NoMoveResponse(reply) == JsonResponse(Null, reply)

\* Line 84: res.json({ move })
MoveResponse(move) == JsonResponse(move, Undefined)

\* The upstream's text left out of the response.
UpstreamErrorResponseNoText(txt) == TextResponse(500, OpenAIErrorPrefix)

\* Line 65: res.status(500).send("OpenAI API error: " + txt)
UpstreamErrorResponse(txt) == TextResponse(500, OpenAIErrorPrefix \o txt)

----------------------------------------------------------------------------
\* One connection's request in flight: its position in the handler and its locals.

NoRequestBody == [present |-> FALSE, fen |-> Undefined, history |-> [t |-> "undef", a |-> <<>>]]

IdleConn ==
    [pc |-> "idle", body |-> NoRequestBody, sent |-> <<>>, upstream |-> NoUpstream,
     raised |-> NoError, escaped |-> FALSE, out |-> <<>>]

\* A response written: the handler returns.
Respond(c, response) == [c EXCEPT !.out = Append(@, response), !.pc = "done"]

\* A handler without the catch: the exception leaves it.
CatchRethrow(c) == [c EXCEPT !.pc = "done", !.escaped = TRUE]

\* Lines 85-88: catch (err) { res.status(500).send(err.message) }
Catch(c) == Respond(c, TextResponse(500, c.raised.message))

\* An exception thrown inside the try block.
Raise(c, err) == Catch([c EXCEPT !.raised = err])

\* fen === undefined for !fen: an empty or null fen passes.
NoFenOnlyUndefined(fen) == fen.t = "undef"

\* Line 33: !fen
NoFen(fen) == Falsy(fen)

\* Lines 31-60: from the start of the handler to the await of fetch.
HandlerStart(c, body) ==
    LET c1 == [c EXCEPT !.pc = "start", !.body = body]
    IN  IF ~body.present THEN Raise(c1, Error("TypeError", BodyUndefinedMessage))
        ELSE IF NoFen(body.fen) THEN Respond(c1, TextResponse(400, MissingNextMove))
        ELSE IF MapError(body.history) # NoError THEN Raise(c1, MapError(body.history))
        ELSE [c1 EXCEPT !.sent = Append(@, OutboundBody(body.fen, body.history)),
                        !.pc = "fetch"]

\* A failure status answered by calling the upstream once more.
AfterFetchRetry(c, r) ==
    IF ~r.ok /\ Len(c.sent) < 2
    THEN [c EXCEPT !.sent = Append(@, c.sent[1])]
    ELSE [c EXCEPT !.upstream = r, !.pc = IF r.ok THEN "json" ELSE "text"]

\* Lines 62-67 up to the next await: r.text() of a failure, r.json() of a success.
AfterFetch(c, r) == [c EXCEPT !.upstream = r, !.pc = IF r.ok THEN "json" ELSE "text"]

\* Lines 64-65, after r.text() gave txt.
AfterText(c) == Respond(c, UpstreamErrorResponse(c.upstream.body.text))

\* reply === undefined for !reply: an empty or null content passes.
NoReplyOnlyUndefined(reply) == reply.t = "undef"

\* Line 74: !reply
NoReply(reply) == Falsy(reply)

\* Lines 68-84, after r.json() gave j; li is moveMatcher.lastIndex.
AfterJson(c, li) ==
    LET j == c.upstream.body.json
        reply == ReplyOf(j)
        x == ExtractMove(MoveMatcherFlags, li, reply.s)
    IN  IF j.j = "null"
        THEN [conn |-> Raise(c, Error("TypeError", ChoicesOfNullMessage)), lastIndex |-> li]
        ELSE IF NoReply(reply)
        THEN [conn |-> Respond(c, TextResponse(500, EmptyReplyText)), lastIndex |-> li]
        ELSE IF reply.t # "str"
        THEN [conn |-> Raise(c, Error("TypeError", TrimNotFunctionMessage)), lastIndex |-> li]
        ELSE IF Falsy(x.move)
        THEN [conn |-> Respond(c, NoMoveResponse(reply)), lastIndex |-> x.lastIndex]
        ELSE [conn |-> Respond(c, MoveResponse(x.move)), lastIndex |-> x.lastIndex]

----------------------------------------------------------------------------
\* Actions: one per stretch of the handler between two awaits.

\* An exception that leaves the handler is an unhandled rejection: the process exits.
Settle(i, c) ==
    /\ conns' = [conns EXCEPT ![i] = c]
    /\ crashed' = (crashed \/ c.escaped)

\* A request arrives on connection i, its body one of B.
Receive(i, B) ==
    /\ ~crashed
    /\ conns[i].pc = "idle"
    /\ \E body \in B : Settle(i, HandlerStart(conns[i], body))
    /\ UNCHANGED lastIndex

\* fetch resolves with the upstream's response, one of U.
FetchResolve(i, U) ==
    /\ ~crashed
    /\ conns[i].pc = "fetch"
    /\ \E r \in U : Settle(i, AfterFetch(conns[i], r))
    /\ UNCHANGED lastIndex

\* fetch rejects: a transport failure, one of E.
FetchReject(i, E) ==
    /\ ~crashed
    /\ conns[i].pc = "fetch"
    /\ \E err \in E : Settle(i, Raise(conns[i], err))
    /\ UNCHANGED lastIndex

\* r.text() resolves.
TextResolve(i) ==
    /\ ~crashed
    /\ conns[i].pc = "text"
    /\ conns[i].upstream.body.kind = "text"
    /\ Settle(i, AfterText(conns[i]))
    /\ UNCHANGED lastIndex

\* r.text() rejects: the body stream broke.
TextReject(i) ==
    /\ ~crashed
    /\ conns[i].pc = "text"
    /\ conns[i].upstream.body.kind = "broken"
    /\ Settle(i, Raise(conns[i], Error("TypeError", BodyTerminatedMessage)))
    /\ UNCHANGED lastIndex

\* r.json() resolves with the parsed body.
JsonResolve(i) ==
    /\ ~crashed
    /\ conns[i].pc = "json"
    /\ conns[i].upstream.body.kind = "json"
    /\ \E after \in {AfterJson(conns[i], lastIndex)} :
           /\ Settle(i, after.conn)
           /\ lastIndex' = after.lastIndex

\* r.json() rejects: the body stream broke, or the body (here the empty text) is no JSON.
JsonReject(i) ==
    /\ ~crashed
    /\ conns[i].pc = "json"
    /\ conns[i].upstream.body.kind \in {"broken", "text"}
    /\ Settle(i, Raise(conns[i],
                       IF conns[i].upstream.body.kind = "broken"
                       THEN Error("TypeError", BodyTerminatedMessage)
                       ELSE Error("SyntaxError", JsonEndMessage)))
    /\ UNCHANGED lastIndex

\* Line 89: the handler has returned and its locals are gone; the connection can carry the
\* next request.
Finish(i) ==
    /\ ~crashed
    /\ conns[i].pc = "done"
    /\ Settle(i, IdleConn)
    /\ UNCHANGED lastIndex

----------------------------------------------------------------------------
\* Inputs: request bodies

RequestBody(fen, history) == [present |-> TRUE, fen |-> fen, history |-> history]

Arr(a) == [t |-> "arr", a |-> a]

NotArr(t) == [t |-> t, a |-> <<>>]

Entry(from, to) == [t |-> "obj", from |-> from, to |-> to]

NullEntry == [t |-> "null", from |-> Undefined, to |-> Undefined]

StartFen ==
    <<"r", "n", "b", "q", "k", "b", "n", "r", "/", "p", "p", "p", "p", "p", "p", "p",
      "p", "/", "8", "/", "8", "/", "8", "/", "8", "/", "P", "P", "P", "P", "P", "P",
      "P", "P", "/", "R", "N", "B", "Q", "K", "B", "N", "R", " ", "w", " ", "K", "Q",
      "k", "q", " ", "-", " ", "0", " ", "1">>

AfterE4Fen ==
    <<"r", "n", "b", "q", "k", "b", "n", "r", "/", "p", "p", "p", "p", "p", "p", "p",
      "p", "/", "8", "/", "8", "/", "4", "P", "3", "/", "8", "/", "P", "P", "P", "P",
      "1", "P", "P", "P", "/", "R", "N", "B", "Q", "K", "B", "N", "R", " ", "b", " ",
      "K", "Q", "k", "q", " ", "e", "3", " ", "0", " ", "1">>

E2 ==
    <<"e", "2">>

E4 ==
    <<"e", "4">>

E7 ==
    <<"e", "7">>

E5 ==
    <<"e", "5">>

\* A field value with a quote and a backslash in it.
Quoted ==
    <<"g", "\"", "\\">>

FenSamples == {Undefined, Null, Str(<<>>), Str(StartFen), Str(AfterE4Fen)}

HistorySamples ==
    {NotArr("undef"), NotArr("null"), NotArr("str"),
     Arr(<<>>),
     Arr(<<NullEntry>>),
     Arr(<<Entry(Str(E2), Str(E4))>>),
     Arr(<<Entry(Str(E2), Undefined)>>),
     Arr(<<Entry(Str(E2), Str(E4)), Entry(Str(E7), Str(E5))>>)}

\* The bodies of the handler's specification; the first is a request express.json() left
\* without a parsed body.
Bodies ==
    {NoRequestBody} \cup {RequestBody(f, h) : f \in FenSamples, h \in HistorySamples}

\* The longest history of the prompt builder's specification.
MaxHistory == 3

FieldSamples == {Str(E2), Str(E4), Str(Quoted)}

PairEntries == {Entry(f, t) : f \in FieldSamples, t \in FieldSamples}

BoundedHistories == UNION {[1..k -> PairEntries] : k \in 0..MaxHistory}

PromptBodies == {RequestBody(Str(StartFen), Arr(h)) : h \in BoundedHistories}

----------------------------------------------------------------------------
\* Inputs: what the upstream does

Unauthorized ==
    <<"U", "n", "a", "u", "t", "h", "o", "r", "i", "z", "e", "d">>

TooManyRequests ==
    <<"T", "o", "o", " ", "M", "a", "n", "y", " ", "R", "e", "q", "u", "e", "s", "t",
      "s">>

BadKeyBody ==
    <<"{", "\"", "e", "r", "r", "o", "r", "\"", ":", "{", "\"", "m", "e", "s", "s", "a",
      "g", "e", "\"", ":", "\"", "I", "n", "c", "o", "r", "r", "e", "c", "t", " ", "A",
      "P", "I", " ", "k", "e", "y", " ", "p", "r", "o", "v", "i", "d", "e", "d", "\"",
      "}", "}">>

RateLimitBody ==
    <<"R", "a", "t", "e", " ", "l", "i", "m", "i", "t", " ", "r", "e", "a", "c", "h",
      "e", "d">>

Upstream(ok, statusText, body) == [ok |-> ok, statusText |-> statusText, body |-> body]

TextBody(text) == UpstreamBody("text", text, NoJson)

BrokenBody == UpstreamBody("broken", <<>>, NoJson)

JsonBody(json) == UpstreamBody("json", <<>>, json)

\* A body { choices: [ { message: { content } } ] }
ContentJson(content) == Json("obj", "arr", "obj", "obj", content)

FailedUpstreams ==
    {Upstream(FALSE, Unauthorized, TextBody(BadKeyBody)),
     Upstream(FALSE, TooManyRequests, TextBody(RateLimitBody)),
     Upstream(FALSE, Unauthorized, TextBody(<<>>)),
     Upstream(FALSE, Unauthorized, TextBody(Unauthorized)),
     Upstream(FALSE, TooManyRequests, BrokenBody)}

\* Success statuses whose body carries no text payload.
EmptyJsons ==
    {Json("null", "undef", "null", "undef", Undefined),
     Json("obj", "undef", "null", "undef", Undefined),
     Json("obj", "empty", "null", "undef", Undefined),
     Json("obj", "arr", "null", "undef", Undefined),
     Json("obj", "arr", "obj", "undef", Undefined),
     Json("obj", "arr", "obj", "null", Undefined),
     ContentJson(Undefined), ContentJson(Null), ContentJson(Str(<<>>))}

ReplyE2E4 ==
    <<"e", "2", "e", "4">>

ReplyPromo ==
    <<"e", "7", "e", "8", "q">>

ReplySure ==
    <<"S", "u", "r", "e", " ", "U+2014", " ", "e", "7", "-", "e", "8", "Q">>

ReplyPass ==
    <<"P", "A", "S", "S">>

ReplyCannot ==
    <<"I", " ", "c", "a", "n", "n", "o", "t", " ", "d", "e", "t", "e", "r", "m", "i",
      "n", "e", " ", "a", " ", "m", "o", "v", "e">>

ReplyPadded ==
    <<" ", "g", "1", "f", "3", "\n">>

ReplyBlank ==
    <<" ", " ", " ">>

ReplySentence ==
    <<"M", "y", " ", "m", "o", "v", "e", ":", " ", "E", "7", "E", "8", "N", ".">>

ReplyGlued ==
    <<"x", "e", "2", "e", "4">>

ReplySamples ==
    {ReplyE2E4, ReplyPromo, ReplySure, ReplyPass, ReplyCannot, ReplyPadded, ReplyBlank,
     ReplySentence, ReplyGlued}

OkUpstream(json) == Upstream(TRUE, <<"O", "K">>, JsonBody(json))

\* What the handler's specification lets the upstream answer.
Upstreams ==
    FailedUpstreams
    \cup {Upstream(TRUE, <<"O", "K">>, BrokenBody), Upstream(TRUE, <<"O", "K">>, TextBody(<<>>))}
    \cup {OkUpstream(j) : j \in EmptyJsons}
    \cup {OkUpstream(ContentJson(Num(<<"5">>)))}
    \cup {OkUpstream(ContentJson(Str(s))) : s \in ReplySamples}

FetchErrors == {Error("TypeError", FetchFailedMessage)}

\* One upstream answer of each kind.
BaseUpstreams ==
    {Upstream(FALSE, Unauthorized, TextBody(BadKeyBody)),
     Upstream(FALSE, TooManyRequests, BrokenBody),
     Upstream(TRUE, <<"O", "K">>, TextBody(<<>>)),
     OkUpstream(ContentJson(Str(ReplyE2E4))),
     OkUpstream(ContentJson(Str(ReplyPass)))}

\* The longest reply text of the extractor's specification.
MaxReplyLen == 6

ReplyAlphabet == {"e", "7", "-", "Q", " "}

BoundedReplies == UNION {[1..k -> ReplyAlphabet] : k \in 0..MaxReplyLen}

ExtractBodies == {RequestBody(Str(StartFen), Arr(<<Entry(Str(E2), Str(E4))>>))}

ExtractUpstreams ==
    BaseUpstreams \cup {OkUpstream(ContentJson(Str(s))) : s \in BoundedReplies \cup ReplySamples}

\* The number of connections of the concurrent specification.
MaxConns == 2

ConcBodies == {RequestBody(Str(f), Arr(<<>>)) : f \in {StartFen, AfterE4Fen}}

----------------------------------------------------------------------------
\* Specifications

InitWith(n) ==
    /\ conns = [i \in 1..n |-> IdleConn]
    /\ lastIndex = 0
    /\ crashed = FALSE

Init == InitWith(1)

Next ==
    \/ \E i \in DOMAIN conns : Receive(i, Bodies)
    \/ \E i \in DOMAIN conns : FetchResolve(i, Upstreams)
    \/ \E i \in DOMAIN conns : FetchReject(i, FetchErrors)
    \/ \E i \in DOMAIN conns : TextResolve(i)
    \/ \E i \in DOMAIN conns : TextReject(i)
    \/ \E i \in DOMAIN conns : JsonResolve(i)
    \/ \E i \in DOMAIN conns : JsonReject(i)
    \/ \E i \in DOMAIN conns : Finish(i)

\* One connection, the sample bodies and upstream answers.
Spec == Init /\ [][Next]_vars

NextPrompt ==
    \/ \E i \in DOMAIN conns : Receive(i, PromptBodies)
    \/ \E i \in DOMAIN conns : FetchResolve(i, BaseUpstreams)
    \/ \E i \in DOMAIN conns : FetchReject(i, FetchErrors)
    \/ \E i \in DOMAIN conns : TextResolve(i)
    \/ \E i \in DOMAIN conns : TextReject(i)
    \/ \E i \in DOMAIN conns : JsonResolve(i)
    \/ \E i \in DOMAIN conns : JsonReject(i)
    \/ \E i \in DOMAIN conns : Finish(i)

\* One connection, every history of up to MaxHistory pairs.
SpecPrompt == Init /\ [][NextPrompt]_vars

NextExtract ==
    \/ \E i \in DOMAIN conns : Receive(i, ExtractBodies)
    \/ \E i \in DOMAIN conns : FetchResolve(i, ExtractUpstreams)
    \/ \E i \in DOMAIN conns : FetchReject(i, FetchErrors)
    \/ \E i \in DOMAIN conns : TextResolve(i)
    \/ \E i \in DOMAIN conns : TextReject(i)
    \/ \E i \in DOMAIN conns : JsonResolve(i)
    \/ \E i \in DOMAIN conns : JsonReject(i)
    \/ \E i \in DOMAIN conns : Finish(i)

\* One connection, every reply text of up to MaxReplyLen characters.
SpecExtract == Init /\ [][NextExtract]_vars

InitConc == InitWith(MaxConns)

NextConc ==
    \/ \E i \in DOMAIN conns : Receive(i, ConcBodies)
    \/ \E i \in DOMAIN conns : FetchResolve(i, BaseUpstreams)
    \/ \E i \in DOMAIN conns : FetchReject(i, FetchErrors)
    \/ \E i \in DOMAIN conns : TextResolve(i)
    \/ \E i \in DOMAIN conns : TextReject(i)
    \/ \E i \in DOMAIN conns : JsonResolve(i)
    \/ \E i \in DOMAIN conns : JsonReject(i)
    \/ \E i \in DOMAIN conns : Finish(i)

\* MaxConns connections whose requests interleave at the awaits.
SpecConc == InitConc /\ [][NextConc]_vars

\* fetch, r.text() and r.json() each settle: the transport resolves or rejects them (its own
\* timeouts end a silent upstream), and the event loop then resumes the handler.
Settles ==
    \/ \E i \in DOMAIN conns : FetchResolve(i, Upstreams)
    \/ \E i \in DOMAIN conns : FetchReject(i, FetchErrors)
    \/ \E i \in DOMAIN conns : TextResolve(i)
    \/ \E i \in DOMAIN conns : TextReject(i)
    \/ \E i \in DOMAIN conns : JsonResolve(i)
    \/ \E i \in DOMAIN conns : JsonReject(i)

\* The handler's specification with every pending await settling.
SpecLive == Init /\ [][Next]_vars /\ WF_vars(Settles)

----------------------------------------------------------------------------
\* Properties

Conns == DOMAIN conns

\* The text s holds sub as a substring.
Contains(s, sub) ==
    \E p \in 0..(Len(s) - Len(sub)) : SubSeq(s, p + 1, p + Len(sub)) = sub

\* The body was parsed and has no fen field, or a null or empty one.
FenMissing(body) ==
    /\ body.present
    /\ body.fen.t \in {"undef", "null"} \/ (body.fen.t = "str" /\ body.fen.s = <<>>)

\* The body was parsed and its fen is a non-empty text.
FenGiven(body) == body.present /\ body.fen.t = "str" /\ body.fen.s # <<>>

\* The history is a list whose entries are objects.
HistoryIsList(history) ==
    history.t = "arr" /\ \A k \in 1..Len(history.a) : history.a[k].t = "obj"

\* The upstream answered with a success status and a body that parses.
JsonAnswered(c) == c.upstream.ok /\ c.upstream.body.kind = "json"

\* The body is { choices: [ { message: { content } } ] } with a non-empty text as content.
HasReplyText(c) ==
    /\ JsonAnswered(c)
    /\ c.upstream.body.json.j = "obj"
    /\ c.upstream.body.json.choices = "arr"
    /\ c.upstream.body.json.first = "obj"
    /\ c.upstream.body.json.message = "obj"
    /\ c.upstream.body.json.content.t = "str"
    /\ c.upstream.body.json.content.s # <<>>

ReplyText(c) == c.upstream.body.json.content.s

\* The move pattern as the specification words it: two coordinate pairs, a hyphen allowed
\* between them, a promotion letter allowed after them, in either case.  The length of its
\* match at p, 0 when none.
WordedLenAt(s, p) ==
    LET h == IF CharAt(s, p + 2) = "-" THEN 1 ELSE 0
    IN  IF /\ CharAt(s, p) \in FileChars
           /\ CharAt(s, p + 1) \in RankChars
           /\ CharAt(s, p + 2 + h) \in FileChars
           /\ CharAt(s, p + 3 + h) \in RankChars
        THEN 4 + h + (IF CharAt(s, p + 4 + h) \in PromoChars THEN 1 ELSE 0)
        ELSE 0

HasWordedMove(s) == \E p \in 0..(Len(s) - 1) : WordedLenAt(s, p) > 0

FirstWordedAt(s) == CHOOSE p \in 0..(Len(s) - 1) :
    WordedLenAt(s, p) > 0 /\ \A q \in 0..(p - 1) : WordedLenAt(s, q) = 0

\* The first such substring with its hyphen removed.
FirstWordedMove(s) ==
    LET p == FirstWordedAt(s)
    IN  SelectSeq(SubSeq(s, p + 1, p + WordedLenAt(s, p)), LAMBDA ch : ch # "-")

\* C1: a request whose parsed body has no fen, or an empty one, is answered with status 400,
\* and no call to the upstream is made while it is handled.
C1_MissingFenIs400WithoutCall ==
    \A i \in Conns :
        FenMissing(conns[i].body) =>
            /\ conns[i].sent = <<>>
            /\ Len(conns[i].out) = 1
            /\ conns[i].out[1].status = 400

C1_Witness ==
    \E i \in Conns :
        /\ conns[i].body.present
        /\ conns[i].body.fen = Str(<<>>)
        /\ conns[i].body.history.t = "arr"
        /\ conns[i].pc = "done"

\* C2 as claimed: whenever the reply text holds a substring of two coordinate pairs, with or
\* without a hyphen between them and a promotion letter after them, the response carries the
\* first such substring with the hyphen removed.
C2_ExtractsWordedMove ==
    \A i \in Conns :
        (conns[i].pc = "done" /\ HasReplyText(conns[i]) /\ HasWordedMove(ReplyText(conns[i]))) =>
            conns[i].out = <<MoveResponse(Str(FirstWordedMove(ReplyText(conns[i]))))>>

\* C3: a non-empty reply text with no substring of the move pattern is answered with status
\* 200, move null and raw the reply as the upstream gave it, untrimmed.
C3_NoMoveIs200WithRaw ==
    \A i \in Conns :
        (conns[i].pc = "done" /\ HasReplyText(conns[i]) /\ ~HasWordedMove(ReplyText(conns[i]))) =>
            /\ Len(conns[i].out) = 1
            /\ conns[i].out[1].status = 200
            /\ conns[i].out[1].kind = "json"
            /\ conns[i].out[1].move = Null
            /\ conns[i].out[1].raw = Str(ReplyText(conns[i]))

C3_Witness ==
    \E i \in Conns :
        /\ conns[i].pc = "done"
        /\ HasReplyText(conns[i])
        /\ ReplyText(conns[i]) = <<" ", "e", "7", "-", " ">>
        /\ conns[i].out[1].raw = Str(<<" ", "e", "7", "-", " ">>)

\* C4 as claimed: every request with a non-empty fen, whatever its history, has made exactly
\* one upstream call when it is answered, and never makes a second.
C4_OneCallWhateverHistory ==
    \A i \in Conns :
        FenGiven(conns[i].body) =>
            /\ Len(conns[i].sent) <= 1
            /\ conns[i].pc = "done" => Len(conns[i].sent) = 1

\* C4 amended: a request with a non-empty fen never makes a second upstream call; it has made
\* exactly one when it is answered if its history is a list of objects, and none otherwise
\* (building the prompt throws and the answer is a 500).
C4_OneCallForListHistory ==
    \A i \in Conns :
        FenGiven(conns[i].body) =>
            /\ Len(conns[i].sent) <= 1
            /\ conns[i].pc \in {"fetch", "text", "json"} => Len(conns[i].sent) = 1
            /\ (conns[i].pc = "done" /\ HistoryIsList(conns[i].body.history)) =>
                   Len(conns[i].sent) = 1
            /\ (conns[i].pc = "done" /\ ~HistoryIsList(conns[i].body.history)) =>
                   /\ conns[i].sent = <<>>
                   /\ conns[i].out[1].status = 500

C4_Witness ==
    \E i \in Conns :
        /\ conns[i].pc = "done"
        /\ FenGiven(conns[i].body)
        /\ conns[i].upstream # NoUpstream
        /\ ~conns[i].upstream.ok
        /\ Len(conns[i].sent) = 1

\* C5 as claimed: when the upstream answers with a failure status, the response is a 500
\* whose body includes the upstream's status text.
C5_FailureCarriesStatusText ==
    \A i \in Conns :
        (conns[i].pc = "done" /\ conns[i].upstream # NoUpstream /\ ~conns[i].upstream.ok) =>
            /\ conns[i].out[1].status = 500
            /\ Contains(conns[i].out[1].text, conns[i].upstream.statusText)

\* C5 amended: when the upstream answers with a failure status, the response is a 500 that
\* carries no move, after exactly one upstream call; its body is "OpenAI API error: "
\* followed by the text of the upstream's response body when that body can be read, and the
\* read failure's message when it cannot.
C5_FailureCarriesBodyText ==
    \A i \in Conns :
        (conns[i].pc = "done" /\ conns[i].upstream # NoUpstream /\ ~conns[i].upstream.ok) =>
            /\ Len(conns[i].out) = 1
            /\ conns[i].out[1].status = 500
            /\ conns[i].out[1].kind = "text"
            /\ Len(conns[i].sent) = 1
            /\ conns[i].upstream.body.kind = "text" =>
                   /\ SubSeq(conns[i].out[1].text, 1, Len(OpenAIErrorPrefix)) = OpenAIErrorPrefix
                   /\ SubSeq(conns[i].out[1].text, Len(OpenAIErrorPrefix) + 1,
                             Len(conns[i].out[1].text)) = conns[i].upstream.body.text
            /\ conns[i].upstream.body.kind = "broken" =>
                   conns[i].out[1].text = BodyTerminatedMessage

C5_Witness ==
    \E i \in Conns :
        /\ conns[i].pc = "done"
        /\ conns[i].upstream = Upstream(FALSE, TooManyRequests, TextBody(RateLimitBody))
        /\ Contains(conns[i].out[1].text, RateLimitBody)

\* No exception has left the handler; an answered request has exactly one response and one
\* in flight has none; an exception raised was answered with a 500 carrying its message.
ExceptionsAnswered ==
    /\ ~crashed
    /\ \A i \in Conns :
           /\ ~conns[i].escaped
           /\ conns[i].pc = "done" => Len(conns[i].out) = 1
           /\ conns[i].pc # "done" => conns[i].out = <<>>
           /\ conns[i].raised # NoError =>
                  /\ conns[i].pc = "done"
                  /\ conns[i].out = <<TextResponse(500, conns[i].raised.message)>>

\* The connection's request waits on the upstream.
InFlight(i) == conns[i].pc \in {"fetch", "text", "json"}

\* The connection's request has its one response, and the process is up.
Answered(i) == ~crashed /\ conns[i].pc = "done" /\ Len(conns[i].out) = 1

\* C6: every exception raised while a request is handled is caught and answered with a 500
\* carrying its message; every request ends with exactly one response, whatever its body and
\* whatever the upstream does, and the process stays up for the requests that follow.
C6_ExceptionsBecome500 ==
    /\ []ExceptionsAnswered
    /\ InFlight(1) ~> Answered(1)

C6_Witness ==
    \E i \in Conns :
        /\ conns[i].pc = "done"
        /\ conns[i].raised = Error("SyntaxError", JsonEndMessage)
        /\ conns[i].out[1].status = 500

\* The entry the specification words for the k-th pair of a history (k from 1).
WordedEntry(a, k) == Decimal(k) \o <<".", " ">> \o a[k].from.s \o <<"-">> \o a[k].to.s

WordedEntries(a) == [k \in 1..Len(a) |-> WordedEntry(a, k)]

ParseFailure == [ok |-> FALSE, text |-> <<>>, next |-> 0]

\* The character a JSON escape \x stands for.
Unescaped(x) ==
    CASE x = "n" -> "\n"
      [] x = "t" -> "\t"
      [] x = "r" -> "\r"
      [] x = "f" -> "\f"
      [] OTHER -> x

RECURSIVE ParseString(_, _, _)
\* Reads a JSON string's characters from position p (1-based, after the opening quote).
ParseString(s, p, acc) ==
    IF p > Len(s) THEN ParseFailure
    ELSE IF s[p] = "\"" THEN [ok |-> TRUE, text |-> acc, next |-> p + 1]
    ELSE IF s[p] = "\\"
         THEN IF p + 1 > Len(s) THEN ParseFailure
              ELSE ParseString(s, p + 2, Append(acc, Unescaped(s[p + 1])))
    ELSE ParseString(s, p + 1, Append(acc, s[p]))

ArrayFailure == [ok |-> FALSE, items |-> <<>>]

RECURSIVE ParseElements(_, _, _)
\* Reads "...", "...", ... ] from position p.
ParseElements(s, p, acc) ==
    IF p > Len(s) \/ s[p] # "\"" THEN ArrayFailure
    ELSE LET r == ParseString(s, p + 1, <<>>)
         IN  IF ~r.ok \/ r.next > Len(s) THEN ArrayFailure
             ELSE IF s[r.next] = "," THEN ParseElements(s, r.next + 1, Append(acc, r.text))
             ELSE IF s[r.next] = "]" /\ r.next = Len(s)
                  THEN [ok |-> TRUE, items |-> Append(acc, r.text)]
             ELSE ArrayFailure

\* JSON.parse of an array of strings.
ParseArray(s) ==
    IF s = <<"[", "]">> THEN [ok |-> TRUE, items |-> <<>>]
    ELSE IF s # <<>> /\ s[1] = "[" THEN ParseElements(s, 2, <<>>)
    ELSE ArrayFailure

\* The user instruction of the call a connection made.
UserSent(c) == c.sent[1].user

\* The user instruction between its fixed beginning and end.
Enumeration(user) == SubSeq(user, Len(UserPrefix) + 1, Len(user) - Len(UserSuffix))

\* The field holds none of the characters JSON writes with a backslash.
PlainText(s) == \A k \in 1..Len(s) : s[k] \notin {"\"", "\\", "\n", "\t", "\r", "\f"}

\* C7 as claimed: the user instruction holds, for every pair of the history, the entry
\* "<i+1>. <from>-<to>" as it stands.
C7_EntriesVerbatim ==
    \A i \in Conns :
        (conns[i].sent # <<>> /\ HistoryIsList(conns[i].body.history)) =>
            \A k \in 1..Len(conns[i].body.history.a) :
                Contains(UserSent(conns[i]), WordedEntry(conns[i].body.history.a, k))

\* C7 amended: the user instruction holds a JSON array of exactly len(h) strings, the i-th
\* (from 0) the JSON encoding of "<i+1>. <from>-<to>" of the i-th pair, in the original
\* order; an entry whose from and to hold no quote, backslash or control character stands in
\* it verbatim; the empty list gives the array [] and the request goes on to the upstream call.
C7_EntriesAsJsonArray ==
    \A i \in Conns :
        (conns[i].pc # "idle" /\ FenGiven(conns[i].body)
         /\ HistoryIsList(conns[i].body.history)) =>
            LET a == conns[i].body.history.a
                user == UserSent(conns[i])
                parsed == ParseArray(Enumeration(user))
            IN  /\ Len(conns[i].sent) = 1
                /\ SubSeq(user, 1, Len(UserPrefix)) = UserPrefix
                /\ SubSeq(user, Len(user) - Len(UserSuffix) + 1, Len(user)) = UserSuffix
                /\ parsed.ok
                /\ parsed.items = WordedEntries(a)
                /\ \A k \in 1..Len(a) :
                       (PlainText(a[k].from.s) /\ PlainText(a[k].to.s)) =>
                           Contains(Enumeration(user), <<"\"">> \o WordedEntry(a, k) \o <<"\"">>)
                /\ a = <<>> => Enumeration(user) = <<"[", "]">>

C7_Witness ==
    \E i \in Conns :
        /\ conns[i].pc = "fetch"
        /\ Len(conns[i].body.history.a) = MaxHistory
        /\ conns[i].body.history.a[1] = Entry(Str(E2), Str(E4))
        /\ conns[i].body.history.a[MaxHistory] = Entry(Str(Quoted), Str(E4))
        /\ ParseArray(Enumeration(UserSent(conns[i]))).items[1] = <<"1", ".", " ", "e", "2", "-", "e", "4">>

\* C8 as claimed: the user instruction sent upstream holds the request's fen, and two
\* requests that differ only in fen send different user instructions.
C8_UserEmbedsFen ==
    /\ \A i \in Conns :
           conns[i].sent # <<>> => Contains(UserSent(conns[i]), conns[i].body.fen.s)
    /\ \A i, j \in Conns :
           (/\ conns[i].sent # <<>>
            /\ conns[j].sent # <<>>
            /\ conns[i].body.history = conns[j].body.history
            /\ conns[i].body.fen # conns[j].body.fen) =>
               UserSent(conns[i]) # UserSent(conns[j])

\* The parsed body carries no text payload: it is null, or choices, its first element, its
\* message or its content is missing or null, or the content is no text or an empty one.
NoTextPayload(j) ==
    \/ j.j = "null"
    \/ j.choices \in {"undef", "empty"}
    \/ j.first = "null"
    \/ j.message \in {"undef", "null"}
    \/ j.content.t # "str"
    \/ j.content.s = <<>>

\* C9: a success status whose body carries no text payload is answered with status 500,
\* never with a 200.
C9_NoPayloadIs500 ==
    \A i \in Conns :
        (/\ conns[i].pc = "done"
         /\ JsonAnswered(conns[i])
         /\ NoTextPayload(conns[i].upstream.body.json)) =>
            /\ Len(conns[i].out) = 1
            /\ conns[i].out[1].status = 500
            /\ conns[i].out[1].kind = "text"

C9_Witness ==
    \E i \in Conns :
        /\ conns[i].pc = "done"
        /\ conns[i].upstream = OkUpstream(ContentJson(Str(<<>>)))
        /\ conns[i].out = <<TextResponse(500, EmptyReplyText)>>

\* C10: the matcher keeps no state between matches, and two answered requests with the same
\* body and the same upstream outcome have the same response, however their handling was
\* interleaved with each other's and with other requests'.
C10_SameRequestSameResponse ==
    /\ lastIndex = 0
    /\ \A i, j \in Conns :
           (/\ conns[i].pc = "done"
            /\ conns[j].pc = "done"
            /\ conns[i].body = conns[j].body
            /\ conns[i].upstream = conns[j].upstream) =>
               conns[i].out = conns[j].out

C10_Witness ==
    \E i, j \in Conns :
        /\ i # j
        /\ conns[i].pc = "done"
        /\ conns[j].pc = "done"
        /\ conns[i].body = conns[j].body
        /\ conns[i].upstream = OkUpstream(ContentJson(Str(ReplyE2E4)))
        /\ conns[j].upstream = conns[i].upstream
        /\ conns[i].out = <<MoveResponse(Str(ReplyE2E4))>>
        /\ conns[j].out = conns[i].out

====
